---------------------------- MODULE Spec2Model ----------------------------
(***************************************************************************)
(* terminal-rat (src/src/main.rs): the render/tick/poll/dispatch loop of   *)
(* main(), the App state it guards with a mutex, and the detached squeak   *)
(* playback threads that share the mutex-guarded rodio Sink.               *)
(*                                                                         *)
(* Numbers.  App.happiness and App.vibe are f32 and dt is f32 seconds.     *)
(* They are carried here as exact fixed-point integers:                    *)
(*   happiness  in units of 1/HUnit  (HUnit = 200, so 1.0 is 200),         *)
(*   vibe       in units of 1/VUnit  (VUnit = 10,  so 1.0 is 10),          *)
(*   time       in units of 1/TUnit second (TUnit = 1).                    *)
(* On that grid 0.08, dt*0.015 and dt*0.9 are whole numbers, so the        *)
(* arithmetic of pet() and tick() is exact.  dt is always finite and >= 0: *)
(* it is Duration::as_secs_f32() of a difference of two Instants.          *)
(***************************************************************************)
EXTENDS Integers, Sequences, FiniteSets, TLC

\* ------------------------------------------------------------------ units
HUnit == 200
VUnit == 10
TUnit == 1

\* ----------------------------------------------------------------- bounds
\* most pet-actions the input source delivers in one run of main()
MaxSqueaks == 2
\* most pet() calls in a run of the App operations alone
MaxPets == 8
\* largest ordinary elapsed time between two clock reads (time units)
MaxDt == 1
\* a clock stall: an elapsed time far beyond a full decay of happiness
BigDt == 80
\* the monotonic clock of a run of main() stops advancing here
MaxNow == 1

\* ------------------------------------------------------------ App, pure
RatStyles == {"Classic", "LongTail", "Chubby"}

Rect(x, y, w, h) == [x |-> x, y |-> y, w |-> w, h |-> h]

\* f32::clamp(self, min, max)
Clamp(v, lo, hi) == IF v < lo THEN lo ELSE IF v > hi THEN hi ELSE v

\* f32 `%`: the remainder has the sign of the dividend
Fmod(a, b) == IF a >= 0 THEN a % b ELSE 0 - ((0 - a) % b)

\* a pet step of 0.1
PetStepTenth == HUnit \div 10

\* 0.08 of happiness
PetStep == (8 * HUnit) \div 100

\* dt * 0.015 of happiness, dt * 0.9 of vibe
Decay(d) == (d * 15 * HUnit) \div (1000 * TUnit)
Advance(d) == (d * 9 * VUnit) \div (10 * TUnit)

\* pet() with the upper bound of the clamp left out
PetHappinessNoCeiling(h) == IF h + PetStep < 0 THEN 0 ELSE h + PetStep

\* App::pet, the happiness field
PetHappiness(h) == Clamp(h + PetStep, 0, HUnit)

\* pet() counting a squeak twice
PetSqueaksTwice(n) == n + 2

\* App::pet, the squeaks field
PetSqueaks(n) == n + 1

\* tick() without the `% 1.0`, and without the clamp
TickVibeNoWrap(v, d) == v + Advance(d)
TickHappinessUnclamped(h, d) == h - Decay(d)

\* App::tick, the vibe field and the happiness field
TickVibe(v, d) == Fmod(v + Advance(d), VUnit)
TickHappiness(h, d) == Clamp(h - Decay(d), 0, HUnit)

\* the match with its last arm going back one variant
NextStyleBounces(s) ==
    CASE s = "Classic" -> "LongTail"
      [] s = "LongTail" -> "Chubby"
      [] s = "Chubby" -> "LongTail"

\* the match of the 's' arm
NextStyle(s) ==
    CASE s = "Classic" -> "LongTail"
      [] s = "LongTail" -> "Chubby"
      [] s = "Chubby" -> "Classic"

\* ratatui Rect::contains(Position): left/top edges inside, right/bottom outside
Contains(r, x, y) ==
    /\ x >= r.x
    /\ x < r.x + r.w
    /\ y >= r.y
    /\ y < r.y + r.h

\* the hit test looking at the column alone
in_rat_bounds_column(area, mouse_x, mouse_y) == Contains(area, mouse_x, area.y)

\* in_rat_bounds(app, mouse_x, mouse_y)
in_rat_bounds(area, mouse_x, mouse_y) == Contains(area, mouse_x, mouse_y)

\* draw_ui: chunks = [Length(3), Min(6), Length(3)] of the frame, top to
\* bottom; center = [60%, 40%] of chunks[1], left to right; the rat panel
\* is center[0].
Sizes == {<<20, 12>>, <<40, 16>>}
RatPanel(sz) == Rect(0, 3, (sz[1] * 60) \div 100, sz[2] - 6)

\* ------------------------------------------------------------ the events
KeyKinds == {"Press", "Repeat", "Release"}
KeyCodes == {"q", "Esc", "p", "Enter", "Space", "s", "x"}
MouseKinds == {"DownLeft", "DownRight", "UpLeft", "Moved"}
Points == {<<0, 2>>, <<11, 8>>, <<11, 9>>, <<12, 5>>}

Ev(type, kind, code, x, y) ==
    [type |-> type, kind |-> kind, code |-> code, x |-> x, y |-> y]
NoEvent == Ev("None", "-", "-", 0, 0)
\* every key pressed; the keys with an arm also repeated and released
KeyEvents ==
    {Ev("Key", "Press", c, 0, 0) : c \in KeyCodes}
        \cup {Ev("Key", k, c, 0, 0) : k \in {"Repeat", "Release"}, c \in {"q", "p"}}
\* the left button pressed at every point; the other kinds at one point
\* that lies in the rat panel of every size
MouseEvents ==
    {Ev("Mouse", "DownLeft", "-", p[1], p[2]) : p \in Points}
        \cup {Ev("Mouse", k, "-", 11, 8) : k \in MouseKinds \ {"DownLeft"}}
ResizeEvents == {Ev("Resize", "-", "-", s[1], s[2]) : s \in Sizes}
OtherEvents == {Ev("FocusGained", "-", "-", 0, 0)}
Events == KeyEvents \cup MouseEvents \cup ResizeEvents \cup OtherEvents

\* the Press guard of the key arm left out: repeats and releases act too
IsPressAnyKind(e) == e.type = "Key"

\* the keyboard pet arm with enter and space left out of its pattern
IsPetKeyOnlyP(e) == e.type = "Key" /\ e.kind = "Press" /\ e.code = "p"

\* the quit arm taken for a release or a repeat of the key as well
IsQuitKeyAnyKind(e) == e.type = "Key" /\ e.code \in {"q", "Esc"}

\* the arms of the match on event::read()
IsPress(e) == e.type = "Key" /\ e.kind = "Press"
IsQuitKey(e) == IsPress(e) /\ e.code \in {"q", "Esc"}
IsPetKey(e) == IsPress(e) /\ e.code \in {"p", "Enter", "Space"}
IsSkinKey(e) == IsPress(e) /\ e.code = "s"
IsLeftDown(e) == e.type = "Mouse" /\ e.kind = "DownLeft"

\* ---------------------------------------------------------------- state
VARIABLES
    pc,            \* where the main thread is
    result,        \* what main() returned: "none" while running, "ok", "err"
    res,           \* the value the loop broke with
    rawMode,       \* terminal in raw mode
    altScreen,     \* terminal on the alternate screen
    mouseCapture,  \* terminal reporting mouse events
    size,          \* the terminal's size <<columns, rows>>
    now,           \* the monotonic clock
    last,          \* main's `last`
    dt,            \* main's `dt`
    ev,            \* the event read in this iteration
    last_pet, happiness, vibe, squeaks, rat_area, style,    \* App
    lock,          \* holder of each Mutex: {} free, {t} playback thread t
    tpc,           \* where each playback thread is
    ti,            \* each playback thread's `i` in play_squeak
    sinkQ          \* the segments queued in the Sink, not yet played out

appVars == <<last_pet, happiness, vibe, squeaks, rat_area, style>>
termVars == <<rawMode, altScreen, mouseCapture>>
clockVars == <<now, last, dt>>
audioVars == <<tpc, ti, sinkQ>>
vars == <<pc, result, res, termVars, size, clockVars, ev, appVars, lock, audioVars>>

Threads == 1 .. MaxSqueaks
Steps == 6

\* App::new(), and main's locals before the first statement
AppNew ==
    /\ last_pet = 0
    /\ happiness = HUnit \div 2
    /\ vibe = 0
    /\ squeaks = 0
    /\ rat_area = Rect(0, 0, 0, 0)
    /\ style = "Classic"

InitRest ==
    /\ result = "none"
    /\ res = "none"
    /\ rawMode = FALSE
    /\ altScreen = FALSE
    /\ mouseCapture = FALSE
    /\ size \in Sizes
    /\ now = 0
    /\ last = 0
    /\ dt = 0
    /\ ev = NoEvent
    /\ lock = [l \in {"app", "sink"} |-> {}]
    /\ tpc = [t \in Threads |-> "none"]
    /\ ti = [t \in Threads |-> 0]
    /\ sinkQ = <<>>

Init == pc = "open_audio" /\ AppNew /\ InitRest

\* ---------------------------------------------------------------- locks
\* the main thread locking the Sink's Mutex, to play the cue itself
MainLockIsSink == "sink"

\* the Mutex each thread locks
MainLock == "app"
PlaybackLock == "sink"

\* Mutex::lock blocks until the Mutex is free.  The main thread takes and
\* drops every guard of app_state inside one step, so its steps wait for
\* Free(MainLock) and leave the lock as they found it.
Free(l) == lock[l] = {}
Acquire(l, who) == Free(l) /\ lock' = [lock EXCEPT ![l] = {who}]
Release(l) == lock' = [lock EXCEPT ![l] = {}]

\* `?` on an Err: main returns at once
Return(r) ==
    /\ pc' = "exited"
    /\ result' = r


\* ------------------------------------------------------- App, operations
\* a pet that also restarts the wiggle
PetResetsVibe ==
    /\ happiness' = PetHappiness(happiness)
    /\ last_pet' = now
    /\ squeaks' = PetSqueaks(squeaks)
    /\ vibe' = 0
    /\ UNCHANGED <<rat_area, style>>

\* App::pet(&mut self)
Pet ==
    /\ happiness' = PetHappiness(happiness)
    /\ last_pet' = now
    /\ squeaks' = PetSqueaks(squeaks)
    /\ UNCHANGED <<vibe, rat_area, style>>

\* App::tick(&mut self, dt)
Tick(d) ==
    /\ vibe' = TickVibe(vibe, d)
    /\ happiness' = TickHappiness(happiness, d)
    /\ UNCHANGED <<last_pet, squeaks, rat_area, style>>

\* a render that lays the frame out without storing the rat panel
DrawUiKeeps == UNCHANGED appVars

\* draw_ui(f, &mut app): app.rat_area = center[0]; the rest is only read
DrawUi ==
    /\ rat_area' = RatPanel(size)
    /\ UNCHANGED <<last_pet, happiness, vibe, squeaks, style>>

\* a pet arm that forgets its thread::spawn
SpawnDropped(t) == tpc' = tpc

\* thread::spawn of the playback closure; the new thread is the squeak's number
Spawn(t) == tpc' = [tpc EXCEPT ![t] = "lock"]

\* ------------------------------------------------------- main(): set-up
\* OutputStream::try_default()? and Sink::try_new(..)?
OpenAudio ==
    /\ pc = "open_audio"
    /\ \/ pc' = "raw" /\ UNCHANGED result
       \/ Return("err")
    /\ UNCHANGED <<res, termVars, size, clockVars, ev, appVars, lock, audioVars>>

\* enable_raw_mode()?
EnableRaw ==
    /\ pc = "raw"
    /\ \/ pc' = "screen" /\ rawMode' = TRUE /\ UNCHANGED result
       \/ Return("err") /\ UNCHANGED rawMode
    /\ UNCHANGED <<res, altScreen, mouseCapture, size, clockVars, ev, appVars, lock,
                   audioVars>>

\* execute!(stdout, EnterAlternateScreen, EnableMouseCapture)?: the commands
\* are written in order; a failure stops at the command that failed
EnterScreen ==
    /\ pc = "screen"
    /\ \/ pc' = "term" /\ altScreen' = TRUE /\ mouseCapture' = TRUE /\ UNCHANGED result
       \/ Return("err") /\ UNCHANGED <<altScreen, mouseCapture>>
       \/ Return("err") /\ altScreen' = TRUE /\ UNCHANGED mouseCapture
    /\ UNCHANGED <<res, rawMode, size, clockVars, ev, appVars, lock, audioVars>>

\* Terminal::new(backend)?
NewTerminal ==
    /\ pc = "term"
    /\ \/ pc' = "new_app" /\ UNCHANGED result
       \/ Return("err")
    /\ UNCHANGED <<res, termVars, size, clockVars, ev, appVars, lock, audioVars>>

\* app_state = Arc::new(Mutex::new(App::new())); last = Instant::now()
NewApp ==
    /\ pc = "new_app"
    /\ pc' = "draw"
    /\ last_pet' = now
    /\ last' = now
    /\ UNCHANGED <<result, res, termVars, size, now, dt, ev, happiness, vibe, squeaks,
                   rat_area, style, lock, audioVars>>

\* ------------------------------------------------------ main(): the loop
\* terminal.draw(|f| { let mut app = app_state.lock().unwrap();
\*                     draw_ui(f, &mut app); })?
\* draw fails before it calls the closure, or in the flush after it; the
\* guard drops when the closure returns.
Draw ==
    /\ pc = "draw"
    /\ \/ /\ Free(MainLock)
          /\ DrawUi
          /\ \/ pc' = "tick" /\ UNCHANGED result
             \/ Return("err")
       \/ Return("err") /\ UNCHANGED appVars
    /\ UNCHANGED <<res, termVars, size, clockVars, ev, lock, audioVars>>

\* now = Instant::now(); dt = (now - last).as_secs_f32(); last = now;
\* { let mut app = app_state.lock().unwrap(); app.tick(dt); }
TickStep ==
    /\ pc = "tick"
    /\ Free(MainLock)
    /\ \E d \in 0 .. MaxDt :
        /\ now + d <= MaxNow
        /\ now' = now + d
        /\ dt' = (now + d) - last
        /\ last' = now + d
        /\ Tick((now + d) - last)
    /\ pc' = "poll"
    /\ UNCHANGED <<result, res, termVars, size, ev, lock, audioVars>>

\* event::poll(Duration::from_millis(1))?
Poll ==
    /\ pc = "poll"
    /\ \/ pc' = "read" /\ UNCHANGED result
       \/ pc' = "sleep" /\ UNCHANGED result
       \/ Return("err")
    /\ UNCHANGED <<res, termVars, size, clockVars, ev, appVars, lock, audioVars>>

\* would dispatching e be a pet-action now
WouldPet(e) == IsPetKey(e) \/ (IsLeftDown(e) /\ in_rat_bounds(rat_area, e.x, e.y))

\* event::read()?  A resize event reports the size the terminal now has.
Read ==
    /\ pc = "read"
    /\ \/ /\ \E e \in Events :
                /\ WouldPet(e) => squeaks < MaxSqueaks
                /\ ev' = e
                /\ size' = IF e.type = "Resize" THEN <<e.x, e.y>> ELSE size
          /\ pc' = "dispatch"
          /\ UNCHANGED result
       \/ Return("err") /\ UNCHANGED <<ev, size>>
    /\ UNCHANGED <<res, termVars, clockVars, appVars, lock, audioVars>>

\* KeyCode::Char('q') | KeyCode::Esc => break Ok(())
DispatchQuit ==
    /\ pc = "dispatch"
    /\ IsQuitKey(ev)
    /\ res' = "ok"
    /\ pc' = "td_raw"
    /\ UNCHANGED <<result, termVars, size, clockVars, ev, appVars, lock, audioVars>>

\* KeyCode::Char('p') | KeyCode::Enter | KeyCode::Char(' ') => {
\*     let mut app = app_state.lock().unwrap(); app.pet(); thread::spawn(..) }
DispatchPet ==
    /\ pc = "dispatch"
    /\ IsPetKey(ev)
    /\ Free(MainLock)
    /\ Pet
    /\ Spawn(squeaks')
    /\ pc' = "sleep"
    /\ UNCHANGED <<result, res, termVars, size, clockVars, ev, lock, ti, sinkQ>>

\* KeyCode::Char('s') => { let mut app = ..; app.style = match app.style {..} }
DispatchSkin ==
    /\ pc = "dispatch"
    /\ IsSkinKey(ev)
    /\ Free(MainLock)
    /\ style' = NextStyle(style)
    /\ pc' = "sleep"
    /\ UNCHANGED <<result, res, termVars, size, clockVars, ev, last_pet, happiness, vibe,
                   squeaks, rat_area, lock, audioVars>>

\* MouseEventKind::Down(MouseButton::Left) => { let mut app = ..;
\*     if in_rat_bounds(&app, x, y) { app.pet(); thread::spawn(..) } }
DispatchMouse ==
    /\ pc = "dispatch"
    /\ IsLeftDown(ev)
    /\ Free(MainLock)
    /\ IF in_rat_bounds(rat_area, ev.x, ev.y)
         THEN Pet /\ Spawn(squeaks')
         ELSE UNCHANGED <<appVars, tpc>>
    /\ pc' = "sleep"
    /\ UNCHANGED <<result, res, termVars, size, clockVars, ev, lock, ti, sinkQ>>

\* the `_ => {}` arms and Event::Resize(_, _) => {}
DispatchIgnore ==
    /\ pc = "dispatch"
    /\ ~(IsQuitKey(ev) \/ IsPetKey(ev) \/ IsSkinKey(ev) \/ IsLeftDown(ev))
    /\ pc' = "sleep"
    /\ UNCHANGED <<result, res, termVars, size, clockVars, ev, appVars, lock, audioVars>>

\* a loop that goes back to poll for a further event before it renders
SleepPollsAgain ==
    /\ pc = "sleep"
    /\ pc' = "poll"
    /\ ev' = NoEvent
    /\ UNCHANGED <<result, res, termVars, size, clockVars, appVars, lock, audioVars>>

\* thread::sleep(tick_rate); the event of this iteration is gone
Sleep ==
    /\ pc = "sleep"
    /\ pc' = "draw"
    /\ ev' = NoEvent
    /\ UNCHANGED <<result, res, termVars, size, clockVars, appVars, lock, audioVars>>

\* ---------------------------------------------------- main(): tear-down
\* disable_raw_mode()?
DisableRaw ==
    /\ pc = "td_raw"
    /\ \/ pc' = "td_screen" /\ rawMode' = FALSE /\ UNCHANGED result
       \/ Return("err") /\ UNCHANGED rawMode
    /\ UNCHANGED <<res, altScreen, mouseCapture, size, clockVars, ev, appVars, lock,
                   audioVars>>

\* execute!(terminal.backend_mut(), LeaveAlternateScreen, DisableMouseCapture)?
LeaveScreen ==
    /\ pc = "td_screen"
    /\ \/ pc' = "td_cursor" /\ altScreen' = FALSE /\ mouseCapture' = FALSE
          /\ UNCHANGED result
       \/ Return("err") /\ UNCHANGED <<altScreen, mouseCapture>>
       \/ Return("err") /\ altScreen' = FALSE /\ UNCHANGED mouseCapture
    /\ UNCHANGED <<res, rawMode, size, clockVars, ev, appVars, lock, audioVars>>

\* terminal.show_cursor()?; res
ShowCursor ==
    /\ pc = "td_cursor"
    /\ \/ Return(res)
       \/ Return("err")
    /\ UNCHANGED <<res, termVars, size, clockVars, ev, appVars, lock, audioVars>>

\* ------------------------------------------------------- play_squeak
\* base_freq, freq_step, the fade-in in ms, and the duration main asks for
BaseFreq == 1600
FreqStep == 450
FadeInMs == 8
SqueakMs == 140

\* a glissando that falls instead of rising
FreqFalling(i) == BaseFreq + (Steps - 1 - i) * FreqStep

\* f = base_freq + i as f32 * freq_step
Freq(i) == BaseFreq + i * FreqStep

\* vol = 0.25 + 0.12 * i, in hundredths
Vol(i) == 25 + 12 * i

\* seg = total / steps as u32: Duration division truncates to nanoseconds
SegNanos(ms) == (ms * 1000000) \div Steps

\* SineWave::new(f).take_duration(seg).amplify(vol).fade_in(8 ms), as
\* appended by playback thread t
Segment(t, i, ms) ==
    [cue |-> t, index |-> i, freq |-> Freq(i), vol |-> Vol(i),
     nanos |-> SegNanos(ms), fade |-> FadeInMs]

\* ------------------------------------------------- the playback threads
\* They run until they finish or the process exits.
Alive == pc # "exited"

\* if let Ok(s) = sink.lock()       (no holder of the Sink's Mutex can
\* panic, so the lock is never poisoned)
SinkLock(t) ==
    /\ Alive
    /\ tpc[t] = "lock"
    /\ Acquire(PlaybackLock, t)
    /\ tpc' = [tpc EXCEPT ![t] = "play"]
    /\ ti' = [ti EXCEPT ![t] = 0]
    /\ UNCHANGED <<pc, result, res, termVars, size, clockVars, ev, appVars, sinkQ>>

\* play_squeak: one turn of `for i in 0..steps { ... sink.append(wave); }`
Append_(t) ==
    /\ Alive
    /\ tpc[t] = "play"
    /\ sinkQ' = Append(sinkQ, Segment(t, ti[t], SqueakMs))
    /\ ti' = [ti EXCEPT ![t] = ti[t] + 1]
    /\ tpc' = [tpc EXCEPT ![t] = IF ti[t] + 1 < Steps THEN "play" ELSE "wait"]
    /\ UNCHANGED <<pc, result, res, termVars, size, clockVars, ev, appVars, lock>>

\* a sleep_until_end() that returns at once
SleepUntilEndNoWait == TRUE

\* Sink::sleep_until_end() returns once every appended source has played out
SleepUntilEnd == sinkQ = <<>>

\* s.sleep_until_end(); the guard drops at the end of the `if let`
Drained(t) ==
    /\ Alive
    /\ tpc[t] = "wait"
    /\ SleepUntilEnd
    /\ Release(PlaybackLock)
    /\ tpc' = [tpc EXCEPT ![t] = "done"]
    /\ UNCHANGED <<pc, result, res, termVars, size, clockVars, ev, appVars, ti, sinkQ>>

\* the audio device finishes playing the segment at the head of the Sink
SinkPlay ==
    /\ Alive
    /\ sinkQ # <<>>
    /\ sinkQ' = Tail(sinkQ)
    /\ UNCHANGED <<pc, result, res, termVars, size, clockVars, ev, appVars, lock, tpc, ti>>

\* ------------------------------------------------------- specifications
MainLoop ==
    \/ Draw \/ TickStep \/ Poll \/ Read
    \/ DispatchQuit \/ DispatchPet \/ DispatchSkin \/ DispatchMouse \/ DispatchIgnore
    \/ Sleep

MainNext ==
    \/ OpenAudio \/ EnableRaw \/ EnterScreen \/ NewTerminal \/ NewApp
    \/ MainLoop
    \/ DisableRaw \/ LeaveScreen \/ ShowCursor

PlaybackNext == \E t \in Threads : SinkLock(t) \/ Append_(t) \/ Drained(t)

Next == MainNext \/ PlaybackNext \/ SinkPlay

Spec == Init /\ [][Next]_vars

\* The App operations alone, called in any order with any argument.
InitApp == pc = "api_new" /\ AppNew /\ InitRest

ApiPet ==
    /\ squeaks < MaxPets
    /\ Pet
    /\ pc' = "api_pet"
    /\ UNCHANGED <<result, res, termVars, size, clockVars, ev, lock, audioVars>>

ApiTick ==
    /\ \E d \in (0 .. MaxDt) \cup {BigDt} :
        /\ dt' = d
        /\ Tick(d)
    /\ pc' = "api_tick"
    /\ UNCHANGED <<result, res, termVars, size, now, last, ev, lock, audioVars>>

NextApp == ApiPet \/ ApiTick

SpecApp == InitApp /\ [][NextApp]_vars


\* The loop under a steady stream of pets, for as long as the process does
\* not exit: every iteration that matters to the Sink runs the 'p' arm.
\* The thread it spawns takes the place of one that has returned, and
\* squeaks is followed up to MaxPets only.  It starts where the first
\* frame has been drawn and nothing has been petted yet.
InitStream ==
    /\ pc = "stream"
    /\ last_pet = 0
    /\ happiness = HUnit \div 2
    /\ vibe = 0
    /\ squeaks = 0
    /\ style = "Classic"
    /\ size \in Sizes
    /\ rat_area = RatPanel(size)
    /\ rawMode = TRUE
    /\ altScreen = TRUE
    /\ mouseCapture = TRUE
    /\ result = "none"
    /\ res = "none"
    /\ now = 0
    /\ last = 0
    /\ dt = 0
    /\ ev = NoEvent
    /\ lock = [l \in {"app", "sink"} |-> {}]
    /\ tpc = [t \in Threads |-> "none"]
    /\ ti = [t \in Threads |-> 0]
    /\ sinkQ = <<>>

\* KeyCode::Char('p') | Enter | Char(' ') => { app.pet(); thread::spawn(..) }
StreamPet ==
    /\ pc = "stream"
    /\ Free(MainLock)
    /\ happiness' = PetHappiness(happiness)
    /\ last_pet' = now
    /\ squeaks' = IF squeaks < MaxPets THEN PetSqueaks(squeaks) ELSE squeaks
    /\ \E t \in Threads :
        /\ tpc[t] \in {"none", "done"}
        /\ Spawn(t)
    /\ UNCHANGED <<pc, result, res, termVars, size, clockVars, ev, vibe, rat_area, style,
                   lock, ti, sinkQ>>

NextStream == StreamPet \/ PlaybackNext \/ SinkPlay

\* Every thread that can run does run, and the device plays what it holds.
\* The Mutex itself promises no order among the threads that want it, so a
\* thread in sink.lock() is only sure to go on if the lock stays free.
FairPlayback ==
    /\ \A t \in Threads : WF_vars(SinkLock(t)) /\ WF_vars(Append_(t)) /\ WF_vars(Drained(t))
    /\ WF_vars(SinkPlay)

SpecStream == InitStream /\ [][NextStream]_vars /\ FairPlayback

\* ---------------------------------------------------------------- claims
Min(a, b) == IF a < b THEN a ELSE b
Max(a, b) == IF a > b THEN a ELSE b
LoopPcs == {"draw", "tick", "poll", "read", "dispatch", "sleep"}
Started == {"play", "wait", "done"}

\* C1: after any sequence of pet() and tick(dt) calls, dt >= 0, from
\* App::new(), happiness lies in [0, 1].
C1_HappinessInUnitInterval == happiness >= 0 /\ happiness <= HUnit

\* pets, then a tick over a clock stall: the lower clamp has acted
C1_Witness == pc = "api_tick" /\ dt = BigDt /\ squeaks > 0 /\ happiness = 0

\* C2: pet() leaves happiness = min(1, h + 0.08); tick(dt) leaves
\* happiness = max(0, h - 0.015 * dt), for dt = 0 and for huge dt as well.
C2_PetTickHappiness ==
    [][/\ pc' = "api_pet" => happiness' = Min(HUnit, happiness + PetStep)
       /\ pc' = "api_tick" => happiness' = Max(0, happiness - Decay(dt'))]_vars

\* the seventh pet from 0.5 would pass 1.0
C2_Witness == pc = "api_pet" /\ squeaks = 7 /\ happiness = HUnit

\* C3: tick(dt) leaves vibe = (v + 0.9 * dt) mod 1.0, which lies in
\* [0, 1); vibe is in [0, 1) in every reachable state.
C3_VibePhase ==
    /\ [](vibe >= 0 /\ vibe < VUnit)
    /\ [][pc' = "api_tick" =>
            /\ vibe' = (vibe + Advance(dt')) % VUnit
            /\ vibe' >= 0
            /\ vibe' < VUnit]_vars

\* a tick over a clock stall after the phase had advanced: the sum wrapped
C3_Witness == pc = "api_tick" /\ dt = BigDt /\ vibe = 9

\* C4: squeaks rises by exactly one in each accepted pet-action (a press of
\* 'p', enter or space, a left-button press in the hit region) and is left
\* alone by every other step, ticks and skin cycles included; it never
\* decreases and is never reset.
C4_SqueakCount ==
    [][LET accepted ==
             /\ pc = "dispatch"
             /\ pc' # "dispatch"
             /\ \/ ev.type = "Key" /\ ev.kind = "Press"
                   /\ ev.code \in {"p", "Enter", "Space"}
                \/ ev.type = "Mouse" /\ ev.kind = "DownLeft"
                   /\ Contains(rat_area, ev.x, ev.y)
       IN  /\ squeaks' = squeaks + (IF accepted THEN 1 ELSE 0)
           /\ squeaks' >= squeaks]_vars

\* two pet-actions, the later by the mouse, with a tick and a skin cycle
\* among them
C4_Witness ==
    /\ pc = "sleep"
    /\ IsLeftDown(ev)
    /\ squeaks = 2
    /\ style # "Classic"
    /\ now > 0

\* C5: the skin-cycle action takes Classic to LongTail, LongTail to Chubby
\* and Chubby to Classic, nothing else changes the variant, and three
\* cycles from any variant give the variant back.
C5_SkinCycle ==
    /\ [](\A s \in RatStyles : NextStyle(NextStyle(NextStyle(s))) = s)
    /\ [][IF pc = "dispatch" /\ pc' # "dispatch" /\ ev.type = "Key"
             /\ ev.kind = "Press" /\ ev.code = "s"
          THEN \/ style = "Classic" /\ style' = "LongTail"
               \/ style = "LongTail" /\ style' = "Chubby"
               \/ style = "Chubby" /\ style' = "Classic"
          ELSE style' = style]_vars

\* a skin cycle has just brought the variant back to Classic
C5_Witness == pc = "sleep" /\ IsSkinKey(ev) /\ style = "Classic"

\* C6: a left-button press is a pet-action iff the hit region contains its
\* point when it is dispatched; a press outside changes no field of the
\* App and spawns no playback thread.
C6_PointerHitTest ==
    [][pc = "dispatch" /\ pc' # "dispatch" /\ ev.type = "Mouse" /\ ev.kind = "DownLeft" =>
          IF Contains(rat_area, ev.x, ev.y)
          THEN /\ squeaks' = squeaks + 1
               /\ happiness' = Min(HUnit, happiness + PetStep)
               /\ tpc'[squeaks + 1] = "lock"
               /\ tpc[squeaks + 1] = "none"
          ELSE UNCHANGED <<appVars, audioVars>>]_vars

\* a press on the row just below the rendered panel: nothing has changed
C6_Witness ==
    /\ pc = "sleep"
    /\ IsLeftDown(ev)
    /\ rat_area = Rect(0, 3, 12, 6)
    /\ ev.x = 11
    /\ ev.y = 9
    /\ squeaks = 0
    /\ \A t \in Threads : tpc[t] = "none"

\* C7: of two pet-actions the cue of the earlier one takes the sink and
\* appends before the cue of the later one, under every interleaving.
C7_CueOrder ==
    \A i \in Threads : \A j \in Threads :
        i < j /\ tpc[j] \in Started => tpc[i] \in Started

\* C8: at most one playback thread holds the sink; it holds it from before
\* its first append until the sink has drained; the queued segments are
\* those of the holder's cue, consecutive and ascending; whoever takes the
\* sink finds it empty.
C8_NoOverlap ==
    /\ Cardinality({t \in Threads : tpc[t] \in {"play", "wait"}}) <= 1
    /\ \A t \in Threads : tpc[t] \in {"play", "wait"} <=> lock["sink"] = {t}
    /\ lock["sink"] = {} => sinkQ = <<>>
    /\ \A k \in 1 .. Len(sinkQ) :
        /\ lock["sink"] = {sinkQ[k].cue}
        /\ k < Len(sinkQ) => sinkQ[k + 1].index = sinkQ[k].index + 1
        /\ k = Len(sinkQ) => sinkQ[k].index + 1 = ti[sinkQ[k].cue]
    /\ \A t \in Threads : tpc[t] = "wait" => ti[t] = Steps

\* the second cue is queued whole, the first has played out and let go
C8_Witness ==
    /\ tpc[1] = "done"
    /\ tpc[2] = "wait"
    /\ Len(sinkQ) = Steps
    /\ sinkQ[1].cue = 2
    /\ sinkQ[1].index = 0

\* C9: tear-down runs on every exit path once a terminal mode was entered;
\* the process never exits with the terminal in raw mode, on the alternate
\* screen or capturing the mouse.
C9_TeardownOnExit == pc = "exited" => ~rawMode /\ ~altScreen /\ ~mouseCapture

\* C10: playback never stalls the loop: no playback thread ever holds the
\* app-state lock, and wherever the main thread is in the loop it can
\* take its next step, whatever the playback threads are doing.
C10_LoopNeverStalls ==
    /\ lock["app"] = {}
    /\ pc \in LoopPcs => ENABLED MainLoop

\* the loop comes round to render while one cue plays and another waits
C10_Witness ==
    /\ pc = "draw"
    /\ squeaks = 2
    /\ \E t \in Threads : tpc[t] = "wait" /\ sinkQ # <<>>
    /\ \E t \in Threads : tpc[t] = "lock"

\* C11: ignored events are dropped: a key event that is no Press, a press
\* of a key with no arm, a resize, a pointer event that is no left-button
\* press, any other event and a poll timeout each leave the App and the
\* playback threads as they were, raise no error, and the loop goes on to
\* its sleep.
C11_IgnoredEvents ==
    [][LET ignored ==
             \/ ev.type = "Key" /\ ev.kind # "Press"
             \/ ev.type = "Key" /\ ev.kind = "Press"
                /\ ev.code \notin {"q", "Esc", "p", "Enter", "Space", "s"}
             \/ ev.type = "Resize"
             \/ ev.type = "Mouse" /\ ev.kind # "DownLeft"
             \/ ev.type = "FocusGained"
           dropped == pc = "dispatch" /\ pc' # "dispatch" /\ ignored
           timeout == pc = "poll" /\ pc' = "sleep"
       IN  dropped \/ timeout =>
             /\ UNCHANGED <<appVars, audioVars, lock>>
             /\ pc' = "sleep"
             /\ result' = "none"
             /\ res' = "none"]_vars

\* after one pet-action a repeat of 'p' was read and dropped
C11_Witness ==
    /\ pc = "sleep"
    /\ ev.type = "Key"
    /\ ev.kind = "Repeat"
    /\ ev.code = "p"
    /\ squeaks = 1
    /\ Cardinality({t \in Threads : tpc[t] # "none"}) = 1

C13_QuitOnly ==
    /\ [](result = "ok" => res = "ok")
    /\ [][LET quitKey == ev.type = "Key" /\ ev.kind = "Press" /\ ev.code \in {"q", "Esc"}
              dispatched == pc = "dispatch" /\ pc' # "dispatch"
              leaves == pc \in LoopPcs /\ pc' \notin LoopPcs
          IN  /\ dispatched /\ quitKey =>
                    /\ pc' = "td_raw"
                    /\ res' = "ok"
                    /\ result' = "none"
                    /\ UNCHANGED <<appVars, audioVars, lock>>
              /\ dispatched /\ ~quitKey => pc' = "sleep"
              /\ leaves /\ ~(dispatched /\ quitKey) =>
                    /\ pc' = "exited"
                    /\ result' = "err"
                    /\ res' = "none"
              /\ res' # res => dispatched /\ quitKey]_vars

\* escape was pressed after a pet-action: the loop has ended with Ok(())
C13_Witness ==
    /\ pc = "td_raw"
    /\ res = "ok"
    /\ ev.type = "Key"
    /\ ev.code = "Esc"
    /\ squeaks = 1

\* C14: end to end.  From happiness 0.5, no squeaks, Classic: a press of
\* 'p' gives happiness 0.58 and one squeak; then tick(1.0 s) gives
\* happiness 0.565 and vibe 0.9; then a press of 's' gives LongTail; then a
\* left press outside the hit region changes nothing; then a press of 'q'
\* ends the loop with Ok(()); one squeak means exactly one cue triggered.
C14_EndToEnd ==
    /\ [](pc \in {"open_audio", "raw", "screen", "term", "new_app"} =>
            happiness = HUnit \div 2 /\ squeaks = 0 /\ style = "Classic" /\ vibe = 0)
    /\ [](squeaks = 1 => Cardinality({t \in Threads : tpc[t] # "none"}) = 1)
    /\ [][LET dispatched == pc = "dispatch" /\ pc' # "dispatch"
              press(c) == ev.type = "Key" /\ ev.kind = "Press" /\ ev.code = c
          IN  /\ dispatched /\ press("p") /\ happiness = HUnit \div 2 /\ squeaks = 0 =>
                    happiness' = (58 * HUnit) \div 100 /\ squeaks' = 1
              /\ pc = "tick" /\ pc' = "poll" /\ dt' = TUnit /\ vibe = 0
                 /\ happiness = (58 * HUnit) \div 100 =>
                    happiness' = (565 * HUnit) \div 1000 /\ vibe' = (9 * VUnit) \div 10
              /\ dispatched /\ press("s") /\ style = "Classic" => style' = "LongTail"
              /\ dispatched /\ ev.type = "Mouse" /\ ev.kind = "DownLeft"
                 /\ ~Contains(rat_area, ev.x, ev.y) => UNCHANGED <<appVars, audioVars>>
              /\ dispatched /\ press("q") =>
                    res' = "ok" /\ pc' \notin LoopPcs /\ UNCHANGED <<appVars, audioVars>>]_vars

\* the state the scenario ends in
C14_Witness ==
    /\ pc = "td_raw"
    /\ res = "ok"
    /\ ev.type = "Key" /\ ev.kind = "Press" /\ ev.code = "q"
    /\ squeaks = 1
    /\ last_pet = 0
    /\ now = TUnit
    /\ happiness = (565 * HUnit) \div 1000
    /\ vibe = (9 * VUnit) \div 10
    /\ style = "LongTail"
    /\ tpc[1] # "none"
    /\ tpc[2] = "none"

\* C15: a cue is exactly 6 segments appended in ascending index order,
\* segment i at 1600 + 450 * i Hz with amplitude 0.25 + 0.12 * i and an
\* 8 ms fade-in; for 140 ms the frequencies are 1600, 2050, 2500, 2950,
\* 3400, 3850, the segments are equally long, and their sum is at most the
\* duration asked for and short of it by less than 6 units (nanoseconds).
C15_CueSegments ==
    /\ \A k \in 1 .. Len(sinkQ) :
        LET s == sinkQ[k]
        IN  /\ s.index \in 0 .. 5
            /\ s.freq = 1600 + 450 * s.index
            /\ s.freq = <<1600, 2050, 2500, 2950, 3400, 3850>>[s.index + 1]
            /\ s.vol = <<25, 37, 49, 61, 73, 85>>[s.index + 1]
            /\ s.fade = 8
            /\ s.nanos = sinkQ[1].nanos
            /\ 6 * s.nanos <= 140 * 1000000
            /\ 140 * 1000000 - 6 * s.nanos < 6
            /\ k < Len(sinkQ) => sinkQ[k + 1].index = s.index + 1
    /\ \A t \in Threads :
        /\ ti[t] <= 6
        /\ tpc[t] \in {"wait", "done"} <=> ti[t] = 6
        /\ tpc[t] = "play" /\ Len(sinkQ) > 0 => sinkQ[Len(sinkQ)].index = ti[t] - 1
    /\ \A ms \in {0, 1, 5, 6, 7, 140, 1000} :
        /\ 6 * SegNanos(ms) <= ms * 1000000
        /\ ms * 1000000 - 6 * SegNanos(ms) < 6

\* a whole cue is queued, none of it played out yet
C15_Witness ==
    /\ tpc[1] = "wait"
    /\ Len(sinkQ) = 6
    /\ sinkQ[1].freq = 1600
    /\ sinkQ[6].freq = 3850
    /\ sinkQ[6].vol = 85
    /\ sinkQ[6].nanos = 23333333

\* C16: each accepted pet-action spawns exactly one playback thread and
\* nothing else spawns one: the threads spawned so far are as many as the
\* squeaks counted; a thread goes once through lock, append and wait and
\* never starts over, so it appends its cue at most once.
C16_OneTaskPerPet ==
    /\ []({t \in Threads : tpc[t] # "none"} = 1 .. squeaks)
    /\ [][LET rank(s) == CASE s = "none" -> 0 [] s = "lock" -> 1 [] s = "play" -> 2
                           [] s = "wait" -> 3 [] s = "done" -> 4
              accepted == pc = "dispatch" /\ pc' = "sleep" /\ squeaks' = squeaks + 1
          IN  \A t \in Threads :
                /\ rank(tpc'[t]) >= rank(tpc[t])
                /\ rank(tpc'[t]) <= rank(tpc[t]) + 1
                /\ ti'[t] >= ti[t]
                /\ tpc[t] = "none" /\ tpc'[t] # "none" <=> accepted /\ t = squeaks + 1]_vars

\* the loop starts its next iteration: two squeaks, two threads, the
\* first of them finished
C16_Witness ==
    /\ pc = "draw"
    /\ squeaks = 2
    /\ tpc[1] = "done"
    /\ tpc[2] # "none"
    /\ ti[1] = Steps

\* C17: an iteration reads at most one event and dispatches at most one
\* action: poll is reached only from the tick, read only from poll,
\* dispatch only from read, and after a dispatch comes the sleep or the
\* end of the loop; squeaks, the variant and the set of playback threads
\* change in a dispatch step alone, each by at most one.
C17_OneActionPerIteration ==
    [][LET spawned(f) == {t \in Threads : f[t] # "none"}
       IN  /\ pc' = "poll" /\ pc # "poll" => pc = "tick"
           /\ pc' = "read" /\ pc # "read" => pc = "poll"
           /\ pc' = "dispatch" /\ pc # "dispatch" => pc = "read" /\ ev' \in Events
           /\ pc = "dispatch" /\ pc' # "dispatch" => pc' \in {"sleep", "td_raw"}
           /\ ev' # ev => \/ pc = "read" /\ pc' = "dispatch"
                          \/ pc = "sleep" /\ pc' = "draw" /\ ev' = NoEvent
           /\ squeaks' # squeaks \/ style' # style \/ spawned(tpc') # spawned(tpc) =>
                 pc = "dispatch" /\ pc' = "sleep"
           /\ squeaks' \in {squeaks, squeaks + 1}
           /\ Cardinality(spawned(tpc') \ spawned(tpc)) <= 1
           /\ \/ style' = style
              \/ <<style, style'>> \in {<<"Classic", "LongTail">>, <<"LongTail", "Chubby">>,
                                        <<"Chubby", "Classic">>}]_vars

\* the end of an iteration that petted once, after an earlier one that
\* had petted once
C17_Witness ==
    /\ pc = "sleep"
    /\ ev.type = "Key" /\ ev.kind = "Press" /\ ev.code = "p"
    /\ squeaks = 2
    /\ tpc[1] = "done"
    /\ tpc[2] = "lock"

\* C18: the loop body runs draw, tick, poll (and read, dispatch when an
\* event is there), sleep in this order and no other; the hit region is
\* written by the draw alone and by every draw that rendered, so a pointer
\* press at its dispatch is tested against the panel of the frame drawn in
\* the same iteration, never against the empty rectangle of App::new().
C18_RenderTickPollSleep ==
    /\ [][LET succ(p) == CASE p = "draw" -> {"tick"}
                           [] p = "tick" -> {"poll"}
                           [] p = "poll" -> {"read", "sleep"}
                           [] p = "read" -> {"dispatch"}
                           [] p = "dispatch" -> {"sleep"}
                           [] p = "sleep" -> {"draw"}
                           [] OTHER -> {}
          IN  /\ pc \in LoopPcs /\ pc' \in LoopPcs /\ pc' # pc => pc' \in succ(pc)
              /\ pc' = "draw" /\ pc # "draw" => pc \in {"new_app", "sleep"}
              /\ rat_area' # rat_area => pc = "draw"
              /\ pc = "draw" /\ pc' = "tick" => rat_area' = RatPanel(size)]_vars
    /\ [](pc = "dispatch" /\ ev.type = "Mouse" =>
             /\ rat_area = RatPanel(size)
             /\ rat_area # Rect(0, 0, 0, 0))

\* a left press accepted by the panel of the wide terminal at a point that
\* lies outside the panel of the narrow one
C18_Witness ==
    /\ pc = "sleep"
    /\ IsLeftDown(ev)
    /\ ev.x = 12 /\ ev.y = 5
    /\ size = <<40, 16>>
    /\ rat_area = RatPanel(<<40, 16>>)
    /\ ~Contains(RatPanel(<<20, 12>>), ev.x, ev.y)
    /\ squeaks > 0
    /\ last_pet = now

\* C19: each operation writes its own fields and no other: a pet writes
\* happiness, last_pet and squeaks and leaves vibe, style and rat_area; a
\* tick writes vibe and happiness and leaves the rest; the skin key writes
\* style alone; a draw writes rat_area alone.
C19_Frames ==
    [][LET step(from, to) == pc = from /\ pc' = to
           pet == step("dispatch", "sleep") /\ (IsPetKey(ev) \/
                     (IsLeftDown(ev) /\ in_rat_bounds(rat_area, ev.x, ev.y)))
           skin == step("dispatch", "sleep") /\ IsSkinKey(ev)
       IN  /\ pet => /\ UNCHANGED <<vibe, style, rat_area>>
                     /\ squeaks' = squeaks + 1
                     /\ last_pet' = now
                     /\ happiness' = Min(happiness + PetStep, HUnit)
           /\ step("tick", "poll") => /\ UNCHANGED <<last_pet, squeaks, style, rat_area>>
                                      /\ vibe' = TickVibe(vibe, dt')
                                      /\ happiness' = TickHappiness(happiness, dt')
           /\ skin => /\ UNCHANGED <<last_pet, happiness, vibe, squeaks, rat_area>>
                      /\ style' # style
           /\ step("draw", "tick") => /\ UNCHANGED <<last_pet, happiness, vibe, squeaks, style>>
                                      /\ rat_area' = RatPanel(size)
           /\ step("dispatch", "sleep") /\ ~pet /\ ~skin => UNCHANGED appVars]_vars

\* a pet given while the wiggle is at its last phase, the skin changed
\* and the mood below its maximum
C19_Witness ==
    /\ pc = "sleep"
    /\ IsPetKey(ev)
    /\ vibe = 9
    /\ style = "Chubby"
    /\ squeaks = 1
    /\ last_pet = now
    /\ happiness < HUnit

\* C20: while the process runs, every spawned playback thread in time
\* takes the Sink's lock, appends its cue, waits for the Sink to drain and
\* releases the lock, also when further threads keep being spawned.
C20_EveryTaskPlays == \A t \in Threads : (tpc[t] = "lock") ~> (tpc[t] = "done")

=============================================================================
